---- MODULE Spec2Model ----
(***************************************************************************)
(* Model of src/firmata.py: the warm-up, the rate-paced acquisition loop,  *)
(* the throttled redraw (window selection, rate estimates, band powers)    *)
(* and the finally block (export, summary, sensor release).                *)
(*                                                                         *)
(* Time is counted in ticks of 0.5 ms (the smallest constant of the        *)
(* program, the 0.0005 s scheduling overhead of line 72, is one tick).     *)
(* time.time() is the variable clock; it never goes backwards, and two     *)
(* consecutive reads may return the same tick.                             *)
(***************************************************************************)
EXTENDS Integers, Sequences, FiniteSets, TLC

VARIABLES
    args,         \* parsed command line: duration, target_hz, window, csv
    pc,           \* position of main()
    clock,        \* what time.time() returns now
    silent,       \* the sensor has stopped reporting for good
    nones,        \* transient "no new value" polls so far
    jitter,       \* ticks the clock advanced on its own so far
    t0,           \* line 46
    t_start,      \* line 62
    last_redraw,  \* line 63 / 108
    now,          \* line 75
    v,            \* line 66
    ts, ys,       \* line 50
    tmax, idx0,   \* lines 78, 93
    tw, yw,       \* lines 94-95
    fs, fsw,      \* lines 86/88/123, 98
    f, Pxx,       \* line 100
    bars,         \* heights of the five bars, line 58 / 102
    redraws,      \* number of times the gate of line 76 fired
    csvWrites,    \* number of times the export file was written
    csvFile,      \* content of the export file
    released,     \* number of board.exit() calls
    exitBy,       \* how the loop was left
    err           \* the exception raised, if any

vars == <<args, pc, clock, silent, nones, jitter, t0, t_start, last_redraw, now,
          v, ts, ys, tmax, idx0, tw, yw, fs, fsw, bars, redraws, csvWrites,
          csvFile, released, exitBy, err, f, Pxx>>

----------------------------------------------------------------------------
(* Program constants, in ticks where they are times. *)

TicksPerSec == 2000
WarmupLimit == 6000
WarmupSleep == 20
RedrawPeriod == 200
SchedOverhead == 1
MinRedraw == 2
MinWelch == 16
AdcScale == 1023

(* Bounds of the model. *)

MaxSamples == 3
MaxNone == 1
MaxJitter == 1
MaxRun == 360
WelchSamples == 18
MaxStamps == 3
MaxBins == 3
MaxPower == 2
WelchRun == 9500

\* time.time() is seconds since 1970: far more than 0.1 s.
Epoch == RedrawPeriod + 1

None == -1
NaN == [num |-> 0, den |-> 0]
NoError == "none"

Max(a, b) == IF a >= b THEN a ELSE b
Min(a, b) == IF a <= b THEN a ELSE b

Last(s) == s[Len(s)]

\* s[i:] of Python, i counted from 0
SliceFrom(s, i) == SubSeq(s, i + 1, Len(s))

----------------------------------------------------------------------------
(* BANDS, in units of 0.5 Hz. *)

BANDS == << [name |-> "delta", fmin |-> 1,  fmax |-> 8],
            [name |-> "theta", fmin |-> 8,  fmax |-> 16],
            [name |-> "alpha", fmin |-> 16, fmax |-> 26],
            [name |-> "beta",  fmin |-> 26, fmax |-> 60],
            [name |-> "gamma", fmin |-> 60, fmax |-> 90] >>

ZeroBars == [j \in 1..Len(BANDS) |-> 0]

\* the bins of a band without its upper edge
BandIdxHalfOpen(freqs, fmin, fmax) ==
    {i \in 1..Len(freqs) : freqs[i] >= fmin /\ freqs[i] < fmax}

\* idx = (freqs >= fmin) & (freqs <= fmax)
BandIdx(freqs, fmin, fmax) ==
    {i \in 1..Len(freqs) : freqs[i] >= fmin /\ freqs[i] <= fmax}

RECURSIVE SelectSeq2(_, _, _)
\* x[idx]: the elements of x at the indices of idx, in order
SelectSeq2(x, idx, i) ==
    IF i > Len(x) THEN <<>>
    ELSE (IF i \in idx THEN <<x[i]>> ELSE <<>>) \o SelectSeq2(x, idx, i + 1)

RECURSIVE TrapzFrom(_, _, _)
\* twice the trapezoid sum of y over x, from index i on
TrapzFrom(y, x, i) ==
    IF i >= Len(x) THEN 0
    ELSE (x[i + 1] - x[i]) * (y[i] + y[i + 1]) + TrapzFrom(y, x, i + 1)

\* np.trapz(y, x), times 2 so that it stays an integer
trapz(y, x) == TrapzFrom(y, x, 1)

\* bandpower with the upper edge of the band left out
bandpowerHalfOpen(freqs, psd, fmin, fmax) ==
    LET idx == {i \in 1..Len(freqs) : freqs[i] >= fmin /\ freqs[i] < fmax} IN
    IF idx = {} THEN 0
    ELSE trapz(SelectSeq2(psd, idx, 1), SelectSeq2(freqs, idx, 1))

\* Lines 19-23
bandpower(freqs, psd, fmin, fmax) ==
    LET idx == BandIdx(freqs, fmin, fmax) IN
    IF idx = {} THEN 0
    ELSE trapz(SelectSeq2(psd, idx, 1), SelectSeq2(freqs, idx, 1))

\* Lines 101-102: the height of each band's bar
BarHeights(freqs, psd) ==
    [j \in 1..Len(BANDS) |->
        bandpower(freqs, psd, BANDS[j].fmin, BANDS[j].fmax)]

\* signal.welch is a library: its result is one of these (f, Pxx) pairs,
\* f ascending from 0 in units of 0.5 Hz, Pxx non-negative.
PSDs == { [f |-> <<0, 4, 8, 12>>, Pxx |-> <<1, 2, 0, 1>>],
          [f |-> <<0, 20, 40, 60>>, Pxx |-> <<0, 1, 3, 1>>] }

----------------------------------------------------------------------------
(* Pure helpers of main(). *)

\* a sleep of the whole period 1 / target_hz
SleepFullPeriod(hz) == Max(0, TicksPerSec \div hz)

\* max(0.0, 1.0 / target_hz - 0.0005), line 72
SleepTicks(hz) == Max(0, (TicksPerSec \div hz) - SchedOverhead)

RECURSIVE Bisect(_, _, _, _)
Bisect(a, x, lo, hi) ==
    IF lo >= hi THEN lo
    ELSE LET mid == (lo + hi) \div 2 IN
         IF a[mid + 1] < x THEN Bisect(a, x, mid + 1, hi)
         ELSE Bisect(a, x, lo, mid)

\* searchsorted with side="right": the rightmost insertion point
searchsortedRight(a, x) == Cardinality({i \in 1..Len(a) : a[i] <= x})

\* np.searchsorted(a, x): the leftmost insertion point, by bisection
searchsorted(a, x) == Bisect(a, x, 0, Len(a))

\* the rate with the samples counted instead of the intervals
RateOfCount(n, span) == [num |-> n, den |-> span]

\* (n - 1) / span, kept as a fraction (samples per tick)
Rate(n, span) == [num |-> n - 1, den |-> span]

\* lines 85-88
DisplayRate(t) == IF Last(t) - t[1] > 0 THEN Rate(Len(t), Last(t) - t[1]) ELSE NaN

\* WarmWaiting with the time-out forgotten
WarmWaitingNoTimeout(r, elapsed) == r = None

\* line 47: ain.read() is None and time.time() - t0 < 3.0
WarmWaiting(r, elapsed) == r = None /\ elapsed < WarmupLimit

\* GateOpen with the period dropped from the comparison
GateOpenNoPeriod(n, last, len) == n - last > 0 /\ len > MinRedraw

\* line 76
GateOpen(n, last, len) == n - last > RedrawPeriod /\ len > MinRedraw

\* line 97
WelchReady(w_y, w_t) == Len(w_y) > MinWelch /\ Last(w_t) - w_t[1] > 0

\* the duration check without the test that a duration is set
DurationReachedUnset(a, t) == t # <<>> /\ Last(t) >= a.duration

\* the duration check passing only after the duration is exceeded
DurationReachedLate(a, t) ==
    a.duration # 0 /\ t # <<>> /\ Last(t) > a.duration

\* line 110
DurationReached(a, t) == a.duration # 0 /\ t # <<>> /\ Last(t) >= a.duration

\* zip(ts, ys), line 120
RECURSIVE Zip(_, _)
Zip(a, b) ==
    IF a = <<>> \/ b = <<>> THEN <<>>
    ELSE <<[t_sec |-> Head(a), adc |-> Head(b)]>> \o Zip(Tail(a), Tail(b))

Header == <<"t_sec", "adc_0_1023">>

----------------------------------------------------------------------------
(* Inputs. *)

\* The command lines the runs are started with: duration and window in
\* ticks, target_hz in Hz.
Configs ==
    { [duration |-> 0,  target_hz |-> 50,   window |-> 40, csv |-> "out.csv"],
      [duration |-> 40, target_hz |-> 50,   window |-> 0,  csv |-> ""],
      [duration |-> 0,  target_hz |-> 0,    window |-> 0,  csv |-> ""],
      [duration |-> 40, target_hz |-> 4000, window |-> 40, csv |-> "out.csv"],
      [duration |-> 1,  target_hz |-> -50,  window |-> 40, csv |-> "out.csv"] }

Readings == {0, 1}

\* What bounds a run: the samples the sensor delivers, its transient
\* "no new value" answers, whether it may stop for good while it is being
\* read, the ticks the clock moves on its own, the length of the run that
\* is followed, and the readings.
Lim == [samples |-> MaxSamples, nones |-> MaxNone, dropout |-> TRUE,
        jitter |-> MaxJitter, run |-> MaxRun, readings |-> Readings]

WarmPcs == {"warm_check", "warm_sleep", "start"}
LoopPcs == {"read", "stamp", "store", "pace", "gate", "durcheck"}
FinallyPcs == {"export", "summary", "release"}
EndPcs == {"done", "crashed"}

InitWith(cfgs) ==
    /\ args \in cfgs
    /\ pc = "warm_check"
    /\ clock = Epoch
    /\ silent \in BOOLEAN
    /\ nones = 0
    /\ jitter = 0
    /\ t0 = Epoch
    /\ t_start = 0
    /\ last_redraw = 0
    /\ now = 0
    /\ v = None
    /\ ts = <<>>
    /\ ys = <<>>
    /\ tmax = 0
    /\ idx0 = 0
    /\ tw = <<>>
    /\ yw = <<>>
    /\ fs = NaN
    /\ fsw = NaN
    /\ f = <<>>
    /\ Pxx = <<>>
    /\ bars = ZeroBars
    /\ redraws = 0
    /\ csvWrites = 0
    /\ csvFile = [header |-> <<>>, rows |-> <<>>]
    /\ released = 0
    /\ exitBy = "none"
    /\ err = NoError

Init == InitWith(Configs)

----------------------------------------------------------------------------
(* The environment: the sensor and the clock. *)

\* What ain.read() can return, with the sensor's state afterwards. A live
\* sensor gives a reading or, now and then, nothing; once silent it gives
\* nothing any more.
ReadOutcomes(L) ==
    (IF ~silent /\ Len(ts) < L.samples
     THEN {[v |-> r, silent |-> FALSE, nones |-> nones] : r \in L.readings}
     ELSE {})
    \cup
    (IF ~silent /\ nones < L.nones
     THEN {[v |-> None, silent |-> FALSE, nones |-> nones + 1]}
     ELSE {})
    \cup
    (IF silent \/ L.dropout \/ Len(ts) >= L.samples
     THEN {[v |-> None, silent |-> TRUE, nones |-> nones]}
     ELSE {})

\* The latest instant the model follows the loop to.
Horizon(L) == t_start + L.run

\* The statements that read the clock
ClockReadPcs == {"warm_check", "start", "stamp", "gate"}

\* The clock moves on before the program reads it.
ClockTick(L) ==
    /\ pc \in ClockReadPcs
    /\ jitter < L.jitter
    /\ pc \in LoopPcs => clock < Horizon(L)
    /\ clock' = clock + 1
    /\ jitter' = jitter + 1
    /\ UNCHANGED <<args, pc, silent, nones, t0, t_start, last_redraw, now, v,
                   ts, ys, tmax, idx0, tw, yw, fs, fsw, bars, redraws,
                   csvWrites, csvFile, released, exitBy, err>>
    /\ UNCHANGED <<f, Pxx>>

----------------------------------------------------------------------------
(* Lines 45-48: the warm-up. *)

\* while ain.read() is None and time.time() - t0 < 3.0
WarmCheck(L) ==
    /\ pc = "warm_check"
    /\ \E o \in ReadOutcomes(L) :
          /\ silent' = o.silent
          /\ nones' = o.nones
          /\ pc' = IF WarmWaiting(o.v, clock - t0)
                   THEN "warm_sleep" ELSE "start"
    /\ UNCHANGED <<args, clock, jitter, t0, t_start, last_redraw, now, v,
                   ts, ys, tmax, idx0, tw, yw, fs, fsw, bars, redraws,
                   csvWrites, csvFile, released, exitBy, err>>
    /\ UNCHANGED <<f, Pxx>>

\* time.sleep(0.01)
WarmSleep ==
    /\ pc = "warm_sleep"
    /\ clock' = clock + WarmupSleep
    /\ pc' = "warm_check"
    /\ UNCHANGED <<args, silent, nones, jitter, t0, t_start, last_redraw, now,
                   v, ts, ys, tmax, idx0, tw, yw, fs, fsw, bars, redraws,
                   csvWrites, csvFile, released, exitBy, err>>
    /\ UNCHANGED <<f, Pxx>>

\* Lines 50-63
Start ==
    /\ pc = "start"
    /\ ts' = <<>>
    /\ ys' = <<>>
    /\ bars' = ZeroBars
    /\ t_start' = clock
    /\ last_redraw' = 0
    /\ pc' = "read"
    /\ UNCHANGED <<args, clock, silent, nones, jitter, t0, now, v, tmax, idx0,
                   tw, yw, fs, fsw, redraws, csvWrites, csvFile, released,
                   exitBy, err>>
    /\ UNCHANGED <<f, Pxx>>

\* Ctrl-C before the try block is entered: nothing catches it.
CancelEarly ==
    /\ pc \in WarmPcs
    /\ pc' = "crashed"
    /\ exitBy' = "early"
    /\ err' = "KeyboardInterrupt"
    /\ UNCHANGED <<args, clock, silent, nones, jitter, t0, t_start,
                   last_redraw, now, v, ts, ys, tmax, idx0, tw, yw, fs, fsw,
                   bars, redraws, csvWrites, csvFile, released>>
    /\ UNCHANGED <<f, Pxx>>

----------------------------------------------------------------------------
(* Lines 65-111: one iteration of the loop, statement by statement. *)

\* v = ain.read(); if v is not None
Read(L) ==
    /\ pc = "read"
    /\ \E o \in ReadOutcomes(L) :
          /\ v' = o.v
          /\ silent' = o.silent
          /\ nones' = o.nones
          /\ pc' = IF o.v # None THEN "stamp" ELSE "pace"
    /\ UNCHANGED <<args, clock, jitter, t0, t_start, last_redraw, now, ts, ys,
                   tmax, idx0, tw, yw, fs, fsw, bars, redraws, csvWrites,
                   csvFile, released, exitBy, err>>
    /\ UNCHANGED <<f, Pxx>>

\* Stamp on a buffer that keeps only its newest timestamps
StampDropOldest ==
    /\ pc = "stamp"
    /\ ts' = IF Len(ts) >= 2 THEN Append(Tail(ts), clock - t_start)
             ELSE Append(ts, clock - t_start)
    /\ pc' = "store"
    /\ UNCHANGED <<args, clock, silent, nones, jitter, t0, t_start,
                   last_redraw, now, v, ys, tmax, idx0, tw, yw, fs, fsw, bars,
                   redraws, csvWrites, csvFile, released, exitBy, err>>
    /\ UNCHANGED <<f, Pxx>>

\* ts.append(time.time() - t_start)
Stamp ==
    /\ pc = "stamp"
    /\ ts' = Append(ts, clock - t_start)
    /\ pc' = "store"
    /\ UNCHANGED <<args, clock, silent, nones, jitter, t0, t_start,
                   last_redraw, now, v, ys, tmax, idx0, tw, yw, fs, fsw, bars,
                   redraws, csvWrites, csvFile, released, exitBy, err>>
    /\ UNCHANGED <<f, Pxx>>

\* ys.append(v * 1023.0)
Store ==
    /\ pc = "store"
    /\ ys' = Append(ys, v * AdcScale)
    /\ pc' = "pace"
    /\ UNCHANGED <<args, clock, silent, nones, jitter, t0, t_start,
                   last_redraw, now, v, ts, tmax, idx0, tw, yw, fs, fsw, bars,
                   redraws, csvWrites, csvFile, released, exitBy, err>>
    /\ UNCHANGED <<f, Pxx>>

\* if args.target_hz > 0: time.sleep(max(0.0, 1.0 / args.target_hz - 0.0005))
\* The model follows the clock up to Horizon and holds it there.
Pace(L) ==
    /\ pc = "pace"
    /\ clock' = IF args.target_hz > 0
                THEN Max(clock, Min(clock + SleepTicks(args.target_hz), Horizon(L)))
                ELSE clock
    /\ pc' = "gate"
    /\ UNCHANGED <<args, silent, nones, jitter, t0, t_start, last_redraw, now,
                   v, ts, ys, tmax, idx0, tw, yw, fs, fsw, bars, redraws,
                   csvWrites, csvFile, released, exitBy, err>>
    /\ UNCHANGED <<f, Pxx>>

\* Lines 92-95: the index the window starts at
\* the window measured from the first timestamp of the buffer
WindowStartFromFirst(t, W) == searchsorted(t, Max(0, Last(t) - W) + t[1])

\* lines 92-93
WindowStart(t, W) == searchsorted(t, Max(0, Last(t) - W))

\* NewBars clearing the bars when the window is not fit for welch
NewBarsOrZero(w_y, w_t, old, psd) ==
    IF WelchReady(w_y, w_t)
    THEN BarHeights(psd.f, psd.Pxx)
    ELSE ZeroBars

\* Lines 97-102: the new bar heights, for a window and a welch result
NewBars(w_y, w_t, old, psd) ==
    IF WelchReady(w_y, w_t)
    THEN BarHeights(psd.f, psd.Pxx)
    ELSE old

\* Lines 75-108
Gate ==
    /\ pc = "gate"
    /\ now' = clock
    /\ IF GateOpen(clock, last_redraw, Len(ts))
       THEN /\ tmax' = Last(ts)
            /\ fs' = DisplayRate(ts)
            /\ idx0' = WindowStart(ts, args.window)
            /\ yw' = SliceFrom(ys, idx0')
            /\ tw' = SliceFrom(ts, idx0')
            /\ fsw' = IF WelchReady(yw', tw')
                      THEN Rate(Len(yw'), Last(tw') - tw'[1]) ELSE fsw
            /\ \E psd \in PSDs :
                  /\ f' = IF WelchReady(yw', tw') THEN psd.f ELSE f
                  /\ Pxx' = IF WelchReady(yw', tw') THEN psd.Pxx ELSE Pxx
                  /\ bars' = NewBars(yw', tw', bars, psd)
            /\ last_redraw' = clock
            /\ redraws' = redraws + 1
       ELSE UNCHANGED <<tmax, fs, idx0, yw, tw, fsw, f, Pxx, bars, last_redraw,
                       redraws>>
    /\ pc' = "durcheck"
    /\ UNCHANGED <<args, clock, silent, nones, jitter, t0, t_start, v, ts, ys,
                   csvWrites, csvFile, released, exitBy, err>>

\* if args.duration and ts and ts[-1] >= args.duration: break
DurCheck ==
    /\ pc = "durcheck"
    /\ IF DurationReached(args, ts)
       THEN pc' = "export" /\ exitBy' = "duration"
       ELSE pc' = "read" /\ UNCHANGED exitBy
    /\ UNCHANGED <<args, clock, silent, nones, jitter, t0, t_start,
                   last_redraw, now, v, ts, ys, tmax, idx0, tw, yw, fs, fsw,
                   bars, redraws, csvWrites, csvFile, released, err>>
    /\ UNCHANGED <<f, Pxx>>

\* except KeyboardInterrupt: pass. Ctrl-C lands between any two statements.
Cancel ==
    /\ pc \in LoopPcs
    /\ pc' = "export"
    /\ exitBy' = "cancel"
    /\ UNCHANGED <<args, clock, silent, nones, jitter, t0, t_start,
                   last_redraw, now, v, ts, ys, tmax, idx0, tw, yw, fs, fsw,
                   bars, redraws, csvWrites, csvFile, released, err>>
    /\ UNCHANGED <<f, Pxx>>

\* Any other exception of the loop body (the plot, its window closed): the
\* finally block runs and the exception goes on.
Raise ==
    /\ pc = "gate"
    /\ pc' = "export"
    /\ exitBy' = "error"
    /\ err' = "Exception"
    /\ UNCHANGED <<args, clock, silent, nones, jitter, t0, t_start,
                   last_redraw, now, v, ts, ys, tmax, idx0, tw, yw, fs, fsw,
                   bars, redraws, csvWrites, csvFile, released>>
    /\ UNCHANGED <<f, Pxx>>

----------------------------------------------------------------------------
(* Lines 115-127: the finally block. *)

\* Exported with the two columns swapped
ExportedSwapped(t, y) == [header |-> Header, rows |-> Zip(y, t)]

\* Lines 117-120: what the file holds after the with block
Exported(t, y) == [header |-> Header, rows |-> Zip(t, y)]

\* Lines 116-121. open() can fail; nothing catches that.
Export ==
    /\ pc = "export"
    /\ \/ /\ args.csv = ""
          /\ pc' = "summary"
          /\ UNCHANGED <<csvWrites, csvFile, err>>
       \/ /\ args.csv # ""
          /\ csvFile' = Exported(ts, ys)
          /\ csvWrites' = csvWrites + 1
          /\ pc' = "summary"
          /\ UNCHANGED err
       \/ /\ args.csv # ""
          /\ err' = "OSError"
          /\ pc' = "crashed"
          /\ UNCHANGED <<csvWrites, csvFile>>
    /\ UNCHANGED <<args, clock, silent, nones, jitter, t0, t_start,
                   last_redraw, now, v, ts, ys, tmax, idx0, tw, yw, fs, fsw,
                   bars, redraws, released, exitBy>>
    /\ UNCHANGED <<f, Pxx>>

\* Line 123 divides by ts[-1] - ts[0] with no test of it
SummaryRaises(t) == Last(t) - t[1] = 0

\* Lines 122-124
Summary ==
    /\ pc = "summary"
    /\ IF ts = <<>>
       THEN pc' = "release" /\ UNCHANGED <<fs, err>>
       ELSE IF SummaryRaises(ts)
            THEN pc' = "crashed" /\ err' = "ZeroDivisionError" /\ UNCHANGED fs
            ELSE /\ fs' = Rate(Len(ts), Last(ts) - ts[1])
                 /\ pc' = "release"
                 /\ UNCHANGED err
    /\ UNCHANGED <<args, clock, silent, nones, jitter, t0, t_start,
                   last_redraw, now, v, ts, ys, tmax, idx0, tw, yw, fsw, bars,
                   redraws, csvWrites, csvFile, released, exitBy>>
    /\ UNCHANGED <<f, Pxx>>

\* Lines 125-127: board.exit(); an exception of the loop goes on after it
Release ==
    /\ pc = "release"
    /\ released' = released + 1
    /\ pc' = IF err = NoError THEN "done" ELSE "crashed"
    /\ UNCHANGED <<args, clock, silent, nones, jitter, t0, t_start,
                   last_redraw, now, v, ts, ys, tmax, idx0, tw, yw, fs, fsw,
                   bars, redraws, csvWrites, csvFile, exitBy, err>>
    /\ UNCHANGED <<f, Pxx>>

----------------------------------------------------------------------------

Step(L) ==
    \/ ClockTick(L)
    \/ WarmCheck(L)
    \/ WarmSleep
    \/ Start
    \/ CancelEarly
    \/ Read(L)
    \/ Stamp
    \/ Store
    \/ Pace(L)
    \/ Gate
    \/ DurCheck
    \/ Cancel
    \/ Raise
    \/ Export
    \/ Summary
    \/ Release

Next == Step(Lim)

Spec == Init /\ [][Next]_vars

\* The interpreter keeps executing the program while it can.
FairSpec == Spec /\ WF_vars(Next)

----------------------------------------------------------------------------
(* The warm-up alone, followed to the first statement of the loop. *)

WarmNext ==
    \/ ClockTick(Lim)
    \/ WarmCheck(Lim)
    \/ WarmSleep
    \/ Start
    \/ CancelEarly

WarmSpec == Init /\ [][WarmNext]_vars /\ WF_vars(WarmNext)

----------------------------------------------------------------------------
(* Runs long enough for welch: four polls a second (a sleep of 499 ticks,
   so that the gate is open at every iteration), a window that holds 17
   samples taken at that pace, one reading value. *)

WelchConfigs ==
    {[duration |-> 0, target_hz |-> 4, window |-> 16 * 499, csv |-> "out.csv"]}

WelchLim == [samples |-> WelchSamples, nones |-> 0, dropout |-> FALSE,
             jitter |-> MaxJitter, run |-> WelchRun, readings |-> {1}]

WelchNext == Step(WelchLim)

SpecWelch == InitWith(WelchConfigs) /\ [][WelchNext]_vars

----------------------------------------------------------------------------
(* bandpower alone: the program is at line 101 with the spectrum welch has
   returned, and lines 101-102 set the five bars from it. *)

\* Bin frequencies in units of 0.5 Hz: below, on and between the edges of
\* BANDS, and above the last one.
FreqGrid == {0, 1, 8, 12, 16, 26, 40, 60, 90, 91}

RECURSIVE Ascending(_)
\* the elements of S as an ascending sequence
Ascending(S) ==
    IF S = {} THEN <<>>
    ELSE LET m == CHOOSE x \in S : \A y \in S : x <= y
         IN  <<m>> \o Ascending(S \ {m})

\* The f that welch returns: ascending, at least one bin
Spectra ==
    {Ascending(S) : S \in {T \in SUBSET FreqGrid :
                              Cardinality(T) \in 1..MaxBins}}

BandInit ==
    /\ args \in WelchConfigs
    /\ pc = "bands"
    /\ clock = Epoch
    /\ silent = FALSE
    /\ nones = 0
    /\ jitter = 0
    /\ t0 = Epoch
    /\ t_start = 0
    /\ last_redraw = 0
    /\ now = 0
    /\ v = None
    /\ ts = <<>>
    /\ ys = <<>>
    /\ tmax = 0
    /\ idx0 = 0
    /\ tw = <<>>
    /\ yw = <<>>
    /\ fs = NaN
    /\ fsw = NaN
    /\ f \in Spectra
    /\ Pxx \in [1..Len(f) -> 0..MaxPower]
    /\ bars = ZeroBars
    /\ redraws = 0
    /\ csvWrites = 0
    /\ csvFile = [header |-> <<>>, rows |-> <<>>]
    /\ released = 0
    /\ exitBy = "none"
    /\ err = NoError

\* Lines 101-102
SetBars ==
    /\ pc = "bands"
    /\ bars' = BarHeights(f, Pxx)
    /\ pc' = "bands_done"
    /\ UNCHANGED <<args, clock, silent, nones, jitter, t0, t_start,
                   last_redraw, now, v, ts, ys, tmax, idx0, tw, yw, fs, fsw,
                   f, Pxx, redraws, csvWrites, csvFile, released, exitBy,
                   err>>

BandNext == SetBars

BandSpec == BandInit /\ [][BandNext]_vars

----------------------------------------------------------------------------
(* The window selection alone: the program is at line 92 with a buffer of
   ascending timestamps, and lines 92-95 cut the window out of it. *)

\* Timestamps in ticks
TimeGrid == {0, 20, 39, 40, 79, 80}

\* The buffers of one to MaxStamps ascending timestamps
Buffers ==
    UNION {{t \in [1..n -> TimeGrid] : \A i \in 1..(n - 1) : t[i] <= t[i + 1]}
           : n \in 1..MaxStamps}

WindowConfigs ==
    {[duration |-> 0, target_hz |-> 50, window |-> W, csv |-> ""]
        : W \in {0, 1, 40, 41}}

WindowInit ==
    /\ args \in WindowConfigs
    /\ pc = "window"
    /\ clock = Epoch
    /\ silent = FALSE
    /\ nones = 0
    /\ jitter = 0
    /\ t0 = Epoch
    /\ t_start = 0
    /\ last_redraw = 0
    /\ now = 0
    /\ v = None
    /\ ts \in Buffers
    /\ ys \in [1..Len(ts) -> Readings]
    /\ tmax = 0
    /\ idx0 = 0
    /\ tw = <<>>
    /\ yw = <<>>
    /\ fs = NaN
    /\ fsw = NaN
    /\ f = <<>>
    /\ Pxx = <<>>
    /\ bars = ZeroBars
    /\ redraws = 0
    /\ csvWrites = 0
    /\ csvFile = [header |-> <<>>, rows |-> <<>>]
    /\ released = 0
    /\ exitBy = "none"
    /\ err = NoError

\* Lines 78 and 92-95
SelectWindow ==
    /\ pc = "window"
    /\ tmax' = Last(ts)
    /\ idx0' = WindowStart(ts, args.window)
    /\ yw' = SliceFrom(ys, idx0')
    /\ tw' = SliceFrom(ts, idx0')
    /\ pc' = "window_done"
    /\ UNCHANGED <<args, clock, silent, nones, jitter, t0, t_start,
                   last_redraw, now, v, ts, ys, fs, fsw, f, Pxx, bars,
                   redraws, csvWrites, csvFile, released, exitBy, err>>

WindowNext == SelectWindow

WindowSpec == WindowInit /\ [][WindowNext]_vars

----------------------------------------------------------------------------
(* Claims. *)

LoopExits == {"duration", "cancel", "error"}

\* C1: once the loop has been left (duration reached, cancellation or an
\* error) and the program has ended, board.exit() has run exactly once,
\* whatever the buffer holds and however the export went.
C1_ReleaseOnce ==
    (pc \in EndPcs /\ exitBy \in LoopExits) => released = 1

\* C2: with a non-zero duration, once that duration has elapsed since the
\* loop started the loop is eventually left, whatever the sensor returns.
C2_DurationExits ==
    (pc \in LoopPcs /\ args.duration > 0 /\ clock - t_start >= args.duration)
        ~> (pc \notin LoopPcs)

\* C3: computing the achieved sampling rate never raises: no run ends in a
\* division by a zero time span.
C3_RateNeverRaises == err # "ZeroDivisionError"

\* C4: the timestamps of the buffer are strictly increasing.
C4_StrictlyIncreasing ==
    \A i \in 1..(Len(ts) - 1) : ts[i] < ts[i + 1]

IsPrefix(a, b) == Len(a) <= Len(b) /\ SubSeq(b, 1, Len(a)) = a

C6_Throttle ==
    [][redraws' # redraws =>
          /\ clock - last_redraw > RedrawPeriod
          /\ last_redraw' = clock
          /\ Len(ts) >= 3]_vars

\* The gate has fired twice.
C6_Witness == redraws >= 2 /\ last_redraw - t_start > RedrawPeriod

\* C7: for a window W >= 0 the slice taken when the gate fired is a suffix
\* of the buffer as it was then, timestamps and values cut at the same
\* index, holding exactly the samples with timestamp >= t_last - W.
C7_WindowSuffix ==
    (redraws > 0 /\ args.window >= 0) =>
        LET n == idx0 + Len(tw) IN
        /\ n <= Len(ts) /\ n <= Len(ys)
        /\ tmax = ts[n]
        /\ tw = SubSeq(ts, idx0 + 1, n)
        /\ yw = SubSeq(ys, idx0 + 1, n)
        /\ \A i \in 1..n : (i > idx0) <=> (ts[i] >= tmax - args.window)

\* A slice that leaves out an older sample and keeps two.
C7_Witness == redraws > 0 /\ idx0 > 0 /\ Len(tw) >= 2 /\ tw[1] < tw[2]

\* C8: when the gate fires and the window slice has 16 samples or fewer, or
\* a zero time span, the five bar heights stay as they were; as long as no
\* cycle has run welch they are all zero.
C8_BarsKept ==
    /\ [](fsw = NaN => bars = ZeroBars)
    /\ [][(redraws' # redraws /\ ~WelchReady(yw', tw')) => bars' = bars]_vars

\* The gate has just fired on a window of at most 16 samples, after a cycle
\* that ran welch and set a bar.
C8_Witness ==
    /\ pc = "durcheck"
    /\ redraws > 0
    /\ last_redraw = now
    /\ Len(yw) <= MinWelch
    /\ fsw # NaN
    /\ bars # ZeroBars

\* C9: each step leaves both lists alone or appends one element at the end
\* of one of them; a timestamp is appended only after a poll that returned
\* a value, and the value that follows completes the sample; a poll that
\* returned nothing appends nothing and goes on to the pacing sleep, and
\* the duration check of that iteration does not leave the loop.
C9_AppendOnly ==
    [][/\ IsPrefix(ts, ts') /\ Len(ts') <= Len(ts) + 1
       /\ IsPrefix(ys, ys') /\ Len(ys') <= Len(ys) + 1
       /\ ts' # ts => (pc = "stamp" /\ v # None /\ ys' = ys)
       /\ ys' # ys => (pc = "store" /\ ts' = ts /\ Len(ys') = Len(ts))
       /\ (pc = "read" /\ pc' \in LoopPcs \ {"read"} /\ v' = None) =>
             (pc' = "pace" /\ ts' = ts /\ ys' = ys)
       /\ (pc = "durcheck" /\ v = None) => exitBy' # "duration"]_vars

\* After two samples a poll returned nothing and the loop went on.
C9_Witness ==
    pc = "read" /\ v = None /\ Len(ts) >= 2 /\ Len(ys) = Len(ts) /\ nones >= 1

\* C10 as claimed: the warm-up is over at most 3 s after it started.
C10_AtMost3s == pc = "start" => clock - t0 <= WarmupLimit

\* C10, amended: the warm-up always ends; a warm-up sleep starts only when
\* less than 3 s have passed since the warm-up started, and a check made
\* 3 s or more after the start ends it; unless Ctrl-C ends the program, the
\* next statement is the set-up of the acquisition loop, whether the sensor
\* has produced a sample or not.
C10_WarmupEnds ==
    /\ [][(pc = "warm_check" /\ pc' = "warm_sleep") =>
              clock - t0 < WarmupLimit]_vars
    /\ [][(pc = "warm_check" /\ clock - t0 >= WarmupLimit) =>
              pc' \in {"warm_check", "start", "crashed"}]_vars
    /\ [][(pc \in {"warm_check", "warm_sleep"} /\ pc' \notin WarmPcs) =>
              err' = "KeyboardInterrupt"]_vars
    /\ (pc \in {"warm_check", "warm_sleep"}) ~> (pc \in {"start", "crashed"})

\* The loop has been entered after a warm-up that timed out, more than 3 s
\* after it started, with no sample seen.
C10_Witness == pc = "read" /\ silent /\ t_start - t0 > WarmupLimit

RECURSIVE SumOver(_, _)
\* the sum of the function g over the finite set S of its arguments
SumOver(S, g) ==
    IF S = {} THEN 0
    ELSE LET i == CHOOSE x \in S : TRUE
         IN  g[i] + SumOver(S \ {i}, g)

\* Band edges tried besides those of BANDS, in units of 0.5 Hz
TestEdges == {0, 1, 8, 13, 26, 91}

\* C11: for every spectrum (ascending frequencies, non-negative powers) and
\* every band, bandpower is 0 when no bin lies in [fmin, fmax] (both ends
\* included); otherwise it is the trapezoid integral over the bins in the
\* band, i.e. the sum over neighbouring bins that both lie in the band of
\* (f[i+1] - f[i]) * (Pxx[i] + Pxx[i+1]) / 2 (kept doubled here); it is
\* never negative, and the bars of lines 101-102 are these values for BANDS.
C11_BandPower ==
    LET In(lo, hi) == {i \in 1..Len(f) : lo <= f[i] /\ f[i] <= hi}
        Area(lo, hi) ==
            LET S == In(lo, hi) IN
            SumOver({i \in S : i + 1 \in S},
                    [i \in 1..Len(f) |->
                        IF i < Len(f)
                        THEN (f[i + 1] - f[i]) * (Pxx[i] + Pxx[i + 1])
                        ELSE 0])
    IN  /\ \A lo \in TestEdges : \A hi \in TestEdges :
            lo <= hi =>
                /\ In(lo, hi) = {} => bandpower(f, Pxx, lo, hi) = 0
                /\ In(lo, hi) # {} => bandpower(f, Pxx, lo, hi) = Area(lo, hi)
                /\ bandpower(f, Pxx, lo, hi) >= 0
        /\ pc = "bands_done" =>
            \A j \in 1..Len(BANDS) :
                /\ bars[j] = Area(BANDS[j].fmin, BANDS[j].fmax)
                /\ bars[j] >= 0

\* The bars are set from a spectrum with three bins, one band with two bins
\* and power in it, one band with a single bin, one band without a bin.
C11_Witness ==
    /\ pc = "bands_done"
    /\ Len(f) = 3
    /\ bars[1] > 0
    /\ \E i \in 1..Len(f) : f[i] > 60 /\ f[i] <= 90 /\ Pxx[i] > 0
    /\ bars[5] = 0
    /\ \A i \in 1..Len(f) : f[i] < 16 \/ f[i] > 26

\* C12: when the plot is redrawn from a buffer of at least 2 strictly
\* increasing timestamps, the rate shown is exactly
\* (n - 1) / (t_last - t_first) over the whole buffer, and when welch is
\* called the sampling rate passed to it is exactly
\* (n - 1) / (t_last - t_first) over the samples of the window.
C12_RateExact ==
    [][(/\ redraws' # redraws
        /\ Len(ts) >= 2
        /\ \A i \in 1..(Len(ts) - 1) : ts[i] < ts[i + 1])
       => /\ fs'.den # 0
          /\ fs'.num * (ts[Len(ts)] - ts[1]) = (Len(ts) - 1) * fs'.den
          /\ (Len(yw') > MinWelch /\ tw'[Len(tw')] - tw'[1] > 0)
             => /\ fsw'.den # 0
                /\ fsw'.num * (tw'[Len(tw')] - tw'[1])
                       = (Len(yw') - 1) * fsw'.den]_vars

\* welch has been called on a window that is shorter than the buffer, so
\* that the two rates are taken over different samples.
C12_Witness ==
    /\ redraws > 0
    /\ fs # NaN
    /\ fsw # NaN
    /\ Len(tw) > MinWelch
    /\ Len(tw) < Len(ts)
    /\ fsw.num * fs.den # fs.num * fsw.den

\* C13: the window cut out of the whole buffer is the window cut out of any
\* suffix of the buffer that still holds every sample with a timestamp of
\* t_last - W or later: the samples dropped in front do not change it.
C13_PrefixIndependent ==
    pc = "window_done" =>
        \A k \in 0..(Len(ts) - 1) :
            (\A i \in 1..k : ts[i] < ts[Len(ts)] - args.window) =>
                LET tail_t == SubSeq(ts, k + 1, Len(ts))
                    tail_y == SubSeq(ys, k + 1, Len(ys))
                    j == WindowStart(tail_t, args.window)
                IN  /\ tw = SubSeq(tail_t, j + 1, Len(tail_t))
                    /\ yw = SubSeq(tail_y, j + 1, Len(tail_y))

\* A window cut out of a buffer whose first sample lies before it: the
\* suffixes without that sample are compared.
C13_Witness ==
    /\ pc = "window_done"
    /\ Len(ts) = 3
    /\ ts[1] < ts[3] - args.window
    /\ ts[2] >= ts[3] - args.window
    /\ ts[2] < ts[3]
    /\ args.window > 0

\* C14: the loop is left through the duration check only when a duration is
\* set (not 0), the buffer is not empty and its last timestamp has reached
\* the duration.
C14_DurationExitOnly ==
    exitBy = "duration" =>
        /\ args.duration > 0
        /\ Len(ts) > 0
        /\ ts[Len(ts)] >= args.duration

\* A run left through the duration check, and ended.
C14_Witness ==
    /\ exitBy = "duration"
    /\ pc = "done"
    /\ args.duration > 0

\* C15 as stated: in a run with target_hz = 50, two consecutive buffered
\* samples are never closer together than 1 / target_hz.
C15_NeverFaster ==
    args.target_hz = 50 =>
        \A i \in 1..(Len(ts) - 1) : ts[i + 1] - ts[i] >= TicksPerSec \div 50

\* C15, amended: with target_hz > 0 every iteration sleeps
\* max(0, 1 / target_hz - 0.0005) seconds, which is never negative; with
\* target_hz <= 0 it does not sleep; and with target_hz > 0 two consecutive
\* buffered samples are never closer together than that sleep (timestamps
\* at the end of the run that is followed, where the clock stops, aside).
C15_Pacing ==
    [][LET period == TicksPerSec \div args.target_hz
           due == IF args.target_hz <= 0 THEN 0
                  ELSE IF period > SchedOverhead THEN period - SchedOverhead
                  ELSE 0
       IN  /\ (pc = "pace" /\ pc' = "gate") =>
                /\ clock' >= clock
                /\ args.target_hz <= 0 => clock' = clock
                /\ clock' < t_start + MaxRun => clock' - clock = due
           /\ args.target_hz > 0 =>
                \A i \in 1..(Len(ts') - 1) :
                    ts'[i + 1] < MaxRun => ts'[i + 1] - ts'[i] >= due]_vars

\* Two samples of a run at 50 Hz that lie exactly one sleep apart, which is
\* less than the period.
C15_Witness ==
    /\ args.target_hz = 50
    /\ Len(ts) >= 2
    /\ ts[2] - ts[1] = (TicksPerSec \div 50) - SchedOverhead
    /\ pc = "gate"

\* C16 as stated: no bin of the spectrum the bars are set from is selected
\* for more than one band.
C16_OneBandPerBin ==
    pc = "bands_done" =>
        \A i \in 1..Len(f) :
            Cardinality({j \in 1..Len(BANDS) :
                            i \in BandIdx(f, BANDS[j].fmin, BANDS[j].fmax)})
                <= 1

\* C16, amended: consecutive bands share exactly an endpoint; a bin is
\* selected for some band exactly when its frequency lies between the lowest
\* and the highest edge; a bin whose frequency is an endpoint shared by two
\* bands is selected for both of them, and every other bin for at most one.
C16_BandsShareEdges ==
    /\ \A j \in 1..Len(BANDS) : BANDS[j].fmin < BANDS[j].fmax
    /\ \A j \in 1..(Len(BANDS) - 1) : BANDS[j].fmax = BANDS[j + 1].fmin
    /\ \A i \in 1..Len(f) :
        LET B == {j \in 1..Len(BANDS) :
                     i \in BandIdx(f, BANDS[j].fmin, BANDS[j].fmax)}
            shared == {j \in 1..(Len(BANDS) - 1) : f[i] = BANDS[j].fmax}
        IN  /\ B # {} <=> (BANDS[1].fmin <= f[i]
                             /\ f[i] <= BANDS[Len(BANDS)].fmax)
            /\ \A j \in shared : B = {j, j + 1}
            /\ shared = {} => Cardinality(B) <= 1

\* The bars are set from a spectrum with a bin at 4 Hz, the edge of delta
\* and theta, and a neighbour in each of the two bands: the power of the
\* bin is in both bars.
C16_Witness ==
    /\ pc = "bands_done"
    /\ Len(f) = 3
    /\ f[1] >= BANDS[1].fmin
    /\ f[2] = BANDS[1].fmax
    /\ f[3] < BANDS[2].fmax
    /\ Pxx[2] > 0
    /\ bars[1] > 0
    /\ bars[2] > 0

\* C17: once the loop has been left, the timestamp list and the value list
\* have the same length, and an export that is written has one row for
\* every buffered timestamp.
C17_ListsPaired ==
    (pc \in FinallyPcs \cup EndPcs /\ exitBy \in LoopExits) =>
        /\ Len(ts) = Len(ys)
        /\ csvWrites > 0 => Len(csvFile.rows) = Len(ts)

\* C18: when the loop has been left through the duration check, the last
\* buffered timestamp is the only one that has reached the duration: every
\* earlier one is below it.
C18_FirstReachedStops ==
    exitBy = "duration" =>
        /\ Len(ts) >= 1
        /\ ts[Len(ts)] >= args.duration
        /\ \A i \in 1..(Len(ts) - 1) : ts[i] < args.duration

\* A run left through the duration check with samples before the one that
\* reached the duration.
C18_Witness ==
    /\ exitBy = "duration"
    /\ Len(ts) >= 2
    /\ ts[Len(ts) - 1] < args.duration
    /\ ts[Len(ts) - 1] > 0

====
